---- MODULE Spec2Model ----
(***************************************************************************)
(* The supervisor/worker workflow of agent.py.                            *)
(*                                                                         *)
(* agent.py builds six react agents (create_react_agent), each bound to a *)
(* task description and a list of retrieval tools, and one supervisor     *)
(* (create_supervisor) that hands control to one agent at a time and gets *)
(* it back.  Which agent runs next, what an agent writes as the new       *)
(* composition and which tool it calls are decided by the reasoning       *)
(* engine (llm, llm_o3), which the source calls and never checks: there   *)
(* is no condition, early return or validation around any engine reply.   *)
(* The engine's replies are therefore inputs of the actions below, drawn  *)
(* from small sets.  The task descriptions are kept as data               *)
(* (CanonicalOrder, the enable flags) so that the properties can refer to *)
(* what they ask for.                                                      *)
(***************************************************************************)
EXTENDS Integers, Sequences, FiniteSets, TLC

\* Bounds of the model.
MaxHandoffs == 2
MaxToolCalls == 2

Range(s) == {s[i] : i \in 1..Len(s)}

\* ------------------------------------------------------------------------
\* Configuration built by agent.py
\* ------------------------------------------------------------------------

\* The agents in the order they are passed to create_supervisor.
RegisteredAgents ==
    << "sorting_engineer", "sorting_supervisor", "chlorine_reduction_specialist",
       "shredding_purification_technician", "R4_process_engineer",
       "water_bath_process_engineer" >>

AgentNames == Range(RegisteredAgents)

\* The order in which process_engineer_prompt lists the agents: bulky-item
\* removal, mechanical sorting, chlorine reduction, shredding, thermal
\* conversion, cooling.
CanonicalOrder ==
    << "sorting_supervisor", "sorting_engineer", "chlorine_reduction_specialist",
       "shredding_purification_technician", "R4_process_engineer",
       "water_bath_process_engineer" >>

\* The yes/no flags of the caller's message, as the set of agents marked yes:
\* none, all, or all but one.
EnableMasks ==
    {m \in SUBSET AgentNames : Cardinality(m) \in {0, 5, 6}}

ToolNames == {"search_engine_openai", "search_engine_duckduckgo", "exa_search"}

\* tools=[...] of each create_react_agent call.
AgentTools(w) ==
    IF w = "R4_process_engineer"
    THEN {"search_engine_openai"}
    ELSE {"search_engine_duckduckgo", "exa_search", "search_engine_openai"}

\* ------------------------------------------------------------------------
\* Payloads threaded through the messages
\* ------------------------------------------------------------------------

Cats == {"metal", "organic"}
Vals == {0, 100}

Sum(f) == f["metal"] + f["organic"]

\* A composition as a worker writes it: any percentages, checked by nobody.
CategoryStates == {[schema |-> "categories", values |-> f] : f \in [Cats -> Vals]}

\* The composition the caller supplies: percentages that sum to 100.
InitialStates == {s \in CategoryStates : Sum(s.values) = 100}

\* The fuel-property record (FuelComposition) the last two agents are asked for.
FuelStates ==
    {[schema |-> "fuel",
      values |-> [calorific_value |-> 20, moisture |-> 10, chlorine |-> 1,
                  ash |-> 10, particle_size_uniformity |-> 50]]}

EngineOutputs == CategoryStates \cup FuelStates

NoState == [schema |-> "none", values |-> << >>]

\* ------------------------------------------------------------------------
\* The retrieval tools
\* ------------------------------------------------------------------------

\* What the backend call inside the try block does.
BackendOutcomes(t) ==
    IF t = "exa_search"
    THEN {"ok", "no_choices", "malformed", "failed"}
    ELSE {"ok", "failed"}

\* try: response = client.responses.create(...); return response
\* except Exception: logger.error(...); raise
search_engine_openai(backend) ==
    IF backend = "failed" THEN "raise" ELSE "return"

\* try: response = DuckDuckGoSearchRun().run(query); return response
\* except Exception: logger.error(...); raise
search_engine_duckduckgo(backend) ==
    IF backend = "failed" THEN "raise" ELSE "return"

exa_search_swallowing(backend) == "return"

\* try: completion = client.chat.completions.create(...)
\*      content / citations read from completion.choices[0].message, or the
\*      "No content found." defaults when completion.choices is empty
\*      return info_dict
\* except Exception: logger.error(...); raise
exa_search(backend) ==
    CASE backend = "failed"     -> "raise"
      [] backend = "malformed"  -> "raise"
      [] backend = "no_choices" -> "return"
      [] OTHER                  -> "return"

ToolFn(t, backend) ==
    CASE t = "search_engine_openai"     -> search_engine_openai(backend)
      [] t = "search_engine_duckduckgo" -> search_engine_duckduckgo(backend)
      [] OTHER                          -> exa_search(backend)

\* ------------------------------------------------------------------------
\* State
\* ------------------------------------------------------------------------

VARIABLES
    enabled,        \* the agents marked **yes** in the caller's message
    initial_state,  \* the composition the caller supplies
    state,          \* the composition of the latest agent result message
    history,        \* names of the agents whose result message was appended
    pc,             \* node of the graph holding control
    active,         \* agents that were handed control and have not returned
    calls,          \* tool calls made by the running agent invocation
    last_call,      \* the latest finished tool call
    outcome,        \* what the caller of the compiled workflow gets
    cancel_requested \* the caller has asked for the run to be cancelled

vars == << enabled, initial_state, state, history, pc, active, calls,
           last_call, outcome, cancel_requested >>

NoCall == [tool |-> "none", backend |-> "none", result |-> "none"]

Pending == [kind |-> "pending", error |-> "none", final_state |-> NoState,
            history |-> << >>]

Init ==
    /\ enabled \in EnableMasks
    /\ initial_state \in InitialStates
    /\ state = initial_state
    /\ history = << >>
    /\ pc = "supervisor"
    /\ active = {}
    /\ calls = 0
    /\ last_call = NoCall
    /\ outcome = Pending
    /\ cancel_requested = FALSE

\* ------------------------------------------------------------------------
\* The supervisor node
\* ------------------------------------------------------------------------

Exception(e) == [kind |-> "exception", error |-> e, final_state |-> NoState,
                 history |-> << >>]

HandoffWhileAgentRuns == pc \in {"supervisor", "agent"}

\* create_supervisor wires supervisor -> agent -> supervisor: the supervisor's
\* engine is asked for its next move only when control is at the supervisor.
HandoffEnabled == pc = "supervisor"

\* The supervisor's engine picks a handoff tool.  create_supervisor offers one
\* per registered agent; the enable flags and the order are only described in
\* process_engineer_prompt, so any registered agent can be picked.
SupervisorHandoff(w) ==
    /\ HandoffEnabled
    /\ Len(history) + Cardinality(active) < MaxHandoffs
    /\ active' = active \cup {w}
    /\ pc' = "agent"
    /\ calls' = 0
    /\ last_call' = NoCall
    /\ UNCHANGED << enabled, cancel_requested, initial_state, state,
                    history, outcome >>

\* The supervisor's engine answers without a handoff: the run ends and the
\* caller gets the messages.  The final composition is the one the engine
\* writes ("Recalculating the final waste composition ...").
SupervisorFinish(final) ==
    /\ pc = "supervisor"
    /\ pc' = "END"
    /\ outcome' = [kind |-> "report", error |-> "none", final_state |-> final,
                   history |-> history]
    /\ UNCHANGED << enabled, cancel_requested, initial_state, state,
                    history, active, calls, last_call >>

\* ------------------------------------------------------------------------
\* A react agent
\* ------------------------------------------------------------------------

\* The agent's engine asks for one of the tools bound to the agent.
AgentCallsTool(w, t) ==
    /\ pc = "agent"
    /\ w \in active
    /\ t \in AgentTools(w)
    /\ calls < MaxToolCalls
    /\ pc' = "tool"
    /\ calls' = calls + 1
    /\ last_call' = [tool |-> t, backend |-> "none", result |-> "none"]
    /\ UNCHANGED << enabled, cancel_requested, initial_state, state,
                    history, active, outcome >>

\* The tool function runs: its try block, and its except block when the
\* backend call raised.
ToolRuns(backend) ==
    /\ pc = "tool"
    /\ backend \in BackendOutcomes(last_call.tool)
    /\ last_call' = [tool |-> last_call.tool, backend |-> backend,
                     result |-> ToolFn(last_call.tool, backend)]
    /\ pc' = IF last_call'.result = "return" THEN "agent" ELSE "tool_error"
    /\ UNCHANGED << enabled, cancel_requested, initial_state, state,
                    history, active, calls, outcome >>

\* The agent's tool node hands the raised error to the engine as the tool's
\* message and the agent goes on.
ToolErrorToAgent ==
    /\ pc = "tool_error"
    /\ pc' = "agent"
    /\ UNCHANGED << enabled, cancel_requested, initial_state, state,
                    history, active, calls, last_call, outcome >>

\* The agent's tool node lets the raised error through: it leaves the agent,
\* the supervisor graph and the compiled workflow, which holds no checkpoint.
ToolErrorPropagates ==
    /\ pc = "tool_error"
    /\ pc' = "raised"
    /\ outcome' = Exception("tool")
    /\ UNCHANGED << enabled, cancel_requested, initial_state, state,
                    history, active, calls, last_call >>

\* The engine call of the agent raises; nothing in agent.py catches it.
AgentEngineFails(w) ==
    /\ pc = "agent"
    /\ w \in active
    /\ pc' = "raised"
    /\ outcome' = Exception("engine")
    /\ UNCHANGED << enabled, cancel_requested, initial_state, state,
                    history, active, calls, last_call >>

KeepOnlyLastResult(h, w) == << w >>

\* output_mode="last_message": the agent's last message is added at the end
\* of the supervisor's messages.
AppendResult(h, w) == Append(h, w)

\* The agent's engine writes its answer; its last message is appended to the
\* supervisor's messages and control goes back to the supervisor.
AgentReturns(w, out) ==
    /\ pc = "agent"
    /\ w \in active
    /\ history' = AppendResult(history, w)
    /\ state' = out
    /\ active' = active \ {w}
    /\ pc' = "supervisor"
    /\ calls' = 0
    /\ last_call' = NoCall
    /\ UNCHANGED << enabled, cancel_requested, initial_state, outcome >>

Next ==
    \/ \E w \in AgentNames : SupervisorHandoff(w)
    \/ \E final \in EngineOutputs : SupervisorFinish(final)
    \/ \E w \in AgentNames, t \in ToolNames : AgentCallsTool(w, t)
    \/ \E backend \in {"ok", "no_choices", "malformed", "failed"} : ToolRuns(backend)
    \/ ToolErrorToAgent
    \/ ToolErrorPropagates
    \/ \E w \in AgentNames : AgentEngineFails(w)
    \/ \E w \in AgentNames, out \in EngineOutputs : AgentReturns(w, out)

Spec == Init /\ [][Next]_vars

\* The caller asks for the run to be cancelled.  create_supervisor and
\* compile() are given no interrupt, checkpointer or cancellation hook and no
\* node reads a cancellation flag, so the request changes nothing in the run.
RequestCancel ==
    /\ ~cancel_requested
    /\ pc \in {"supervisor", "agent", "tool", "tool_error"}
    /\ cancel_requested' = TRUE
    /\ UNCHANGED << enabled, initial_state, state, history, pc, active,
                    calls, last_call, outcome >>

NextWithCancel ==
    \/ Next
    \/ RequestCancel

\* The runs of the workflow with a caller that may ask for cancellation.
SpecCancel == Init /\ [][NextWithCancel]_vars

\* ------------------------------------------------------------------------
\* Properties
\* ------------------------------------------------------------------------

IsEnabled(w) == w \in enabled

\* The enabled agents in the order of process_engineer_prompt.
EnabledInCanonicalOrder == SelectSeq(CanonicalOrder, IsEnabled)

\* C1: in every run that completes, the stage names of history are exactly
\* the enabled workers in canonical order: each once, no disabled one, none
\* out of order.
C1_HistoryIsEnabledInCanonicalOrder ==
    outcome.kind = "report" => outcome.history = EnabledInCanonicalOrder

\* C2: at most one worker is executing in any reachable state, and the
\* supervisor holds control only when the worker it started has returned.
C2_AtMostOneWorker ==
    /\ Cardinality(active) <= 1
    /\ pc = "supervisor" => active = {}
    /\ pc \in {"agent", "tool", "tool_error"} => Cardinality(active) = 1

\* A second stage is running after the first one has returned.
C2_SecondStageRunning ==
    /\ pc = "agent"
    /\ Len(history) = 1
    /\ Cardinality(active) = 1

\* C3: for every valid initial composition and every enable mask, the
\* category percentages of the current state sum to 100 after each worker
\* that ran has returned, and so do those of the final state.
C3_SumIs100AfterEachWorker ==
    /\ (Len(history) > 0 /\ pc \in {"supervisor", "END"}) =>
          (state.schema = "categories" /\ Sum(state.values) = 100)
    /\ outcome.kind = "report" =>
          (outcome.final_state.schema = "categories"
             /\ Sum(outcome.final_state.values) = 100)

\* C4: a category that is 0% in the initial state is 0% in every later state
\* of the run.
C4_NoMassInvented ==
    \A c \in Cats :
        (initial_state.values[c] = 0 /\ state.schema = "categories") =>
            state.values[c] = 0

\* C5: when a worker invocation fails the run halts and the caller receives,
\* with the error, the history of the stages that completed before it.
C5_FailureSurfacesPartialHistory ==
    pc = "raised" =>
        /\ outcome.kind = "exception"
        /\ outcome.final_state = NoState
        /\ outcome.history = history

\* C6: a disabled stage is never invoked and gets no history entry.
C6_DisabledStageNotInvoked ==
    \A w \in AgentNames \ enabled :
        w \notin active /\ w \notin Range(history)

\* C7: a run in which every worker is disabled ends with the final state
\* equal to the initial state and an empty history.
C7_AllDisabledIsIdentity ==
    (enabled = {} /\ outcome.kind = "report") =>
        /\ outcome.final_state = initial_state
        /\ outcome.history = << >>

\* C8: whenever the backend call of a retrieval tool fails, the tool call ends
\* by raising to its caller and never returns a normal result.
C8_BackendFailureRaises ==
    last_call.backend \in {"failed", "malformed"} =>
        /\ last_call.result = "raise"
        /\ pc \in {"tool_error", "agent", "raised"}

\* exa_search has raised a failure of its backend call to the agent's tool node.
C8_ExaFailureRaised ==
    /\ pc = "tool_error"
    /\ last_call.tool = "exa_search"
    /\ last_call.backend = "failed"
    /\ last_call.result = "raise"

\* C9: for every stage, when one tool call has failed the worker holds a
\* second, different tool to fall back to.
C9_FallbackToolBound ==
    \A w \in active :
        (pc \in {"tool_error", "agent"} /\ last_call.result = "raise") =>
            AgentTools(w) \ {last_call.tool} # {}

\* An output that breaks an invariant of the composition: the percentages do
\* not sum to 100, or a category absent before has mass.
Violates(old, new) ==
    /\ new.schema = "categories"
    /\ \/ Sum(new.values) # 100
       \/ /\ old.schema = "categories"
          /\ \E c \in Cats : old.values[c] = 0 /\ new.values[c] > 0

\* C10: the coordinator never adopts as current state a worker output that
\* violates an invariant.
C10_NoViolatingOutputAdopted ==
    [][(pc = "agent" /\ pc' = "supervisor") => ~Violates(state, state')]_vars

\* The record an agent's task description says it is given, and the one it
\* is asked to write: the thermal-conversion agent turns the composition into
\* the fuel-property table, the cooling agent works on that table.
Consumes(w) ==
    IF w = "water_bath_process_engineer" THEN "fuel" ELSE "categories"

Produces(w) ==
    IF w \in {"R4_process_engineer", "water_bath_process_engineer"}
    THEN "fuel"
    ELSE "categories"

\* Walking the first n stages of the canonical order from a composition in
\* categories, some enabled stage is handed a record of the other schema.
RECURSIVE MismatchWithin(_, _)
MismatchWithin(mask, n) ==
    IF n = 0
    THEN [schema |-> "categories", mismatch |-> FALSE]
    ELSE LET before == MismatchWithin(mask, n - 1)
             w == CanonicalOrder[n]
         IN  IF w \notin mask
             THEN before
             ELSE [schema |-> Produces(w),
                   mismatch |-> before.mismatch \/ Consumes(w) # before.schema]

SchemaMismatch(mask) == MismatchWithin(mask, Len(CanonicalOrder)).mismatch

\* An enabled agent whose task description demands retrieval holds no tool.
NoUsableTool(mask) == \E w \in mask : AgentTools(w) = {}

\* C11: a configuration error (schema mismatch at a stage boundary, a worker
\* without a usable tool) is reported before execution begins: in such a run
\* no worker is ever invoked and history stays empty.
C11_ConfigurationErrorBeforeExecution ==
    (SchemaMismatch(enabled) \/ NoUsableTool(enabled)) =>
        (active = {} /\ history = << >>)

IsPrefix(a, b) == Len(a) <= Len(b) /\ SubSeq(b, 1, Len(a)) = a

\* C12: history is append-only: in every step the previous history is a
\* prefix of the new one, and the history emitted at the end of a run that
\* completes is the whole history of the run.
C12_HistoryAppendOnly ==
    [][/\ IsPrefix(history, history')
       /\ outcome'.kind = "report" => outcome'.history = history']_vars

\* A run with two completed stages has emitted its report.
C12_TwoEntriesEmitted ==
    /\ outcome.kind = "report"
    /\ Len(history) = 2
    /\ outcome.history = history

\* C13: a run can be cancelled at a stage boundary: once cancellation has
\* been requested no further worker is started (a worker already running may
\* still return).
C13_NoWorkerStartedAfterCancel ==
    [][cancel_requested => active' \subseteq active]_vars

\* The tools the "Tools: You have access to the following tools" paragraph of
\* an agent's task description names: the same three in all six.
PromptTools(w) ==
    {"search_engine_openai", "search_engine_duckduckgo", "exa_search"}

\* C15: the tools a worker's task description tells it it has access to are
\* all bound to that worker, so a running worker is never told of a tool it
\* does not hold.
C15_PromptToolsAreBound ==
    \A w \in active : PromptTools(w) \subseteq AgentTools(w)

====
